---- MODULE Spec2Model ----
(***************************************************************************)
(* Model of the room registry (RoomManager) and the websocket sessions     *)
(* (MyWs) of src/src/spatial_api/models.rs.                                *)
(*                                                                         *)
(* RoomManager is an actix actor: its handlers run one at a time, in the   *)
(* order its mailbox received the messages.  Every MyWs is an actor of its *)
(* own; it talks to the RoomManager only with do_send.  The RoomManager    *)
(* keeps a WeakAddr per session: upgrade() succeeds while something still  *)
(* owns the session's mailbox (the session's context, or an Addr carried   *)
(* by a JoinRoom message that waits in the RoomManager's mailbox).         *)
(*                                                                         *)
(* Time is counted in seconds and advances in steps of HeartbeatInterval,  *)
(* the period of the session's run_interval timer.                         *)
(***************************************************************************)
EXTENDS Integers, Sequences, FiniteSets, Bags, TLC

\* ------------------------------------------------------------- bounds
\* Session ids there are.
NumSessions == 3
\* Sessions that connect where the registry is looked at (Spec, SweepSpec,
\* IsolationSpec); CrowdSpec lets every session connect.
NumConnecting == 2
\* Messages waiting in the RoomManager's mailbox when a peer connects, sends
\* a text frame or ends its stream.
MaxQueue == 2
\* Sessions that connect in the timed specification (SessionSpec).
NumTimed == 1

\* ---------------------------------------------------- program constants
HeartbeatInterval == 5
ClientTimeout == 30

Sessions == 1 .. NumSessions
RoomKeys == {"u1", "u2"}
NoSession == 0
NoUser == "-"
NoText == << >>
NoCount == -1

\* Text frames a peer may send: characters, with leading/trailing blanks.
Texts == { <<"h", "i">>, <<" ", "h", "i", " ">> }

VARIABLES
    rooms,      \* RoomManager.rooms: user_id -> (session_id -> WeakAddr)
    mailbox,    \* the RoomManager's mailbox: messages sent, not yet handled
    st,         \* per MyWs actor: "new", "active", "stopped", "released"
    user_id,    \* MyWs.user_id
    idle,       \* seconds since MyWs.heartbeat.last_heartbeat (saturating)
    probeDue,   \* the session's 5 s interval timer has expired
    heard,      \* history: the session has received a ping, pong or text frame
    leaveSent,  \* number of LeaveRoom messages the session has sent
    joined,     \* history: <<user_id, session_id>> of every JoinRoom handled
    left,       \* history: <<user_id, session_id>> of every LeaveRoom handled
    last        \* the step just taken: a RoomManager step and what it produced,
                \* or a close frame, protocol error or heartbeat timeout of a session

vars == << rooms, mailbox, st, user_id, idle, probeDue, heard, leaveSent,
           joined, left, last >>

\* ------------------------------------------------------------ helpers
EmptyMap == [x \in {} |-> NoSession]

RemoveKey(f, k) == [x \in (DOMAIN f) \ {k} |-> f[x]]

Put(f, k, v) == [x \in (DOMAIN f) \cup {k} |-> IF x = k THEN v ELSE f[x]]

Max(a, b) == IF a >= b THEN a ELSE b

Min(a, b) == IF a <= b THEN a ELSE b

\* One do_send of a ClientMessage: the receiving actor and the text.
Push(addr, msg) == SetToBag({ << addr, msg >> })

\* The do_send calls of one loop over a room's entries: msg goes once to the
\* actor behind every session id in sids.
Pushes(sessions, sids, msg) ==
    LET recipients == { sessions[sid] : sid \in sids }
    IN [p \in { << a, msg >> : a \in recipients } |->
           Cardinality({ sid \in sids : sessions[sid] = p[1] })]

\* str::trim on a text given as a sequence of characters.
RECURSIVE TrimStart(_)
TrimStart(t) ==
    IF t # << >> /\ Head(t) = " " THEN TrimStart(Tail(t)) ELSE t

RECURSIVE TrimEnd(_)
TrimEnd(t) ==
    IF t # << >> /\ t[Len(t)] = " " THEN TrimEnd(SubSeq(t, 1, Len(t) - 1)) ELSE t

Trim(t) == TrimEnd(TrimStart(t))

\* ------------------------------------------------- ClientMessage texts
\* format!("[SYSTEM] You joined room. Active users: {}", count)
WelcomeMsg(count) == [kind |-> "welcome", from |-> NoSession, text |-> NoText, count |-> count]

\* format!("[SYSTEM] New user joined. Active users: {}", count)
JoinMsg(count) == [kind |-> "joined", from |-> NoSession, text |-> NoText, count |-> count]

\* format!("[SYSTEM] User left. Remaining users: {}", remaining)
LeaveMsg(remaining) == [kind |-> "left", from |-> NoSession, text |-> NoText, count |-> remaining]

\* format!("[{}] {}: {}", timestamp, session_short, message)
RoomMsg(sid, message) == [kind |-> "room", from |-> sid, text |-> message, count |-> NoCount]

\* format!("[You @ {}] {}", timestamp, message)
EchoMsg(message) == [kind |-> "echo", from |-> NoSession, text |-> message, count |-> NoCount]

NoMsg == [kind |-> "none", from |-> NoSession, text |-> NoText, count |-> NoCount]

\* ------------------------------------------- messages to the RoomManager
JoinRoom(u, sid, addr) ==
    [type |-> "JoinRoom", user_id |-> u, session_id |-> sid, addr |-> addr, message |-> NoMsg]

LeaveRoom(u, sid) ==
    [type |-> "LeaveRoom", user_id |-> u, session_id |-> sid, addr |-> NoSession, message |-> NoMsg]

SendToRoom(u, message, sid) ==
    [type |-> "SendToRoom", user_id |-> u, session_id |-> sid, addr |-> NoSession, message |-> message]

GetRoomUserCount(u) ==
    [type |-> "GetRoomUserCount", user_id |-> u, session_id |-> NoSession, addr |-> NoSession, message |-> NoMsg]

DebugRooms ==
    [type |-> "DebugRooms", user_id |-> NoUser, session_id |-> NoSession, addr |-> NoSession, message |-> NoMsg]

\* ------------------------------------------------------------ WeakAddr
\* A handle that the map keeps resolvable by holding it.
Upgrade_owning(addr) ==
    \/ st[addr] \in {"active", "stopped"}
    \/ \E i \in DOMAIN mailbox :
          mailbox[i].type = "JoinRoom" /\ mailbox[i].addr = addr
    \/ \E u \in DOMAIN rooms : \E sid \in DOMAIN rooms[u] : rooms[u][sid] = addr

\* WeakAddr::upgrade succeeds while the session's context exists, or while a
\* queued JoinRoom still carries a strong Addr of it.
Upgrade(addr) ==
    \/ st[addr] \in {"active", "stopped"}
    \/ \E i \in DOMAIN mailbox :
          mailbox[i].type = "JoinRoom" /\ mailbox[i].addr = addr

\* --------------------------------------------------------- RoomManager
\* cleanup_dead_connections that removes one dead entry a call.
cleanup_dead_connections_one(rms, u) ==
    IF u \in DOMAIN rms
    THEN LET sessions == rms[u]
             dead_sessions == { sid \in DOMAIN sessions : ~Upgrade(sessions[sid]) }
             first == IF dead_sessions = {} THEN {}
                      ELSE { CHOOSE sid \in dead_sessions : TRUE }
             kept == [sid \in (DOMAIN sessions) \ first |-> sessions[sid]]
         IN IF DOMAIN kept = {}
            THEN RemoveKey(rms, u)
            ELSE [rms EXCEPT ![u] = kept]
    ELSE rms

\* cleanup_dead_connections that empties the room it is called for.
cleanup_dead_connections_clears(rms, u) ==
    IF u \in DOMAIN rms THEN RemoveKey(rms, u) ELSE rms

\* cleanup_dead_connections that leaves the emptied room in the map.
cleanup_dead_connections_keeps_room(rms, u) ==
    IF u \in DOMAIN rms
    THEN LET sessions == rms[u]
             dead_sessions == { sid \in DOMAIN sessions : ~Upgrade(sessions[sid]) }
             kept == [sid \in (DOMAIN sessions) \ dead_sessions |-> sessions[sid]]
         IN [rms EXCEPT ![u] = kept]
    ELSE rms

\* RoomManager::cleanup_dead_connections
cleanup_dead_connections(rms, u) ==
    IF u \in DOMAIN rms
    THEN LET sessions == rms[u]
             dead_sessions == { sid \in DOMAIN sessions : ~Upgrade(sessions[sid]) }
             kept == [sid \in (DOMAIN sessions) \ dead_sessions |-> sessions[sid]]
         IN IF DOMAIN kept = {}
            THEN RemoveKey(rms, u)
            ELSE [rms EXCEPT ![u] = kept]
    ELSE rms

\* join_room that keeps the handle a session id already has.
join_room_keeps_handle(rms, u, session_id, addr) ==
    LET swept == cleanup_dead_connections(rms, u)
        old == IF u \in DOMAIN swept THEN swept[u] ELSE EmptyMap
        sessions == IF session_id \in DOMAIN old THEN old ELSE Put(old, session_id, addr)
        count == Cardinality(DOMAIN sessions)
        others == { sid \in DOMAIN sessions : sid # session_id /\ Upgrade(sessions[sid]) }
    IN [rooms |-> Put(swept, u, sessions),
        pushed |-> Push(addr, WelcomeMsg(count)) (+) Pushes(sessions, others, JoinMsg(count))]

\* join_room that tells the joiner too that a new user joined.
join_room_notifies_all(rms, u, session_id, addr) ==
    LET swept == cleanup_dead_connections(rms, u)
        old == IF u \in DOMAIN swept THEN swept[u] ELSE EmptyMap
        sessions == Put(old, session_id, addr)
        count == Cardinality(DOMAIN sessions)
        everyone == { sid \in DOMAIN sessions : Upgrade(sessions[sid]) }
    IN [rooms |-> Put(swept, u, sessions),
        pushed |-> Push(addr, WelcomeMsg(count)) (+) Pushes(sessions, everyone, JoinMsg(count))]

\* RoomManager::join_room: the map afterwards and the ClientMessages sent.
join_room(rms, u, session_id, addr) ==
    LET swept == cleanup_dead_connections(rms, u)
        old == IF u \in DOMAIN swept THEN swept[u] ELSE EmptyMap
        sessions == Put(old, session_id, addr)
        count == Cardinality(DOMAIN sessions)
        others == { sid \in DOMAIN sessions : sid # session_id /\ Upgrade(sessions[sid]) }
    IN [rooms |-> Put(swept, u, sessions),
        pushed |-> Push(addr, WelcomeMsg(count)) (+) Pushes(sessions, others, JoinMsg(count))]

\* leave_room that counts the leaver among the remaining users.
leave_room_miscounts(rms, u, session_id) ==
    LET present == u \in DOMAIN rms
        sessions == IF present THEN RemoveKey(rms[u], session_id) ELSE EmptyMap
        remaining == IF present THEN Cardinality(DOMAIN rms[u]) ELSE 0
        should_remove_room == present /\ DOMAIN sessions = {}
    IN IF should_remove_room
       THEN [rooms |-> RemoveKey(rms, u), pushed |-> EmptyBag]
       ELSE [rooms |-> IF present THEN [rms EXCEPT ![u] = sessions] ELSE rms,
             pushed |-> IF present
                        THEN Pushes(sessions,
                                    { sid \in DOMAIN sessions : Upgrade(sessions[sid]) },
                                    LeaveMsg(remaining))
                        ELSE EmptyBag]

\* leave_room that forgets sessions.remove(session_id).
leave_room_keeps_entry(rms, u, session_id) ==
    [rooms |-> rms, pushed |-> EmptyBag]

\* RoomManager::leave_room
leave_room(rms, u, session_id) ==
    LET present == u \in DOMAIN rms
        sessions == IF present THEN RemoveKey(rms[u], session_id) ELSE EmptyMap
        remaining == IF present THEN Cardinality(DOMAIN sessions) ELSE 0
        should_remove_room == present /\ DOMAIN sessions = {}
    IN IF should_remove_room
       THEN [rooms |-> RemoveKey(rms, u), pushed |-> EmptyBag]
       ELSE [rooms |-> IF present THEN [rms EXCEPT ![u] = sessions] ELSE rms,
             pushed |-> IF present
                        THEN Pushes(sessions,
                                    { sid \in DOMAIN sessions : Upgrade(sessions[sid]) },
                                    LeaveMsg(remaining))
                        ELSE EmptyBag]

\* broadcast_to_room_excluding that sends to the members of every room.
broadcast_to_room_excluding_everywhere(rms, u, message, exclude_session) ==
    LET swept == cleanup_dead_connections(rms, u)
        entries == { e \in (DOMAIN swept) \X Sessions :
                        /\ e[2] \in DOMAIN swept[e[1]]
                        /\ e[2] # exclude_session
                        /\ Upgrade(swept[e[1]][e[2]]) }
        recipients == { swept[e[1]][e[2]] : e \in entries }
    IN [rooms |-> swept,
        pushed |-> [p \in { << a, message >> : a \in recipients } |-> 1]]

\* broadcast_to_room_excluding that gives up when the room holds a dead handle.
broadcast_to_room_excluding_abort(rms, u, message, exclude_session) ==
    LET before == IF u \in DOMAIN rms THEN rms[u] ELSE EmptyMap
        swept == cleanup_dead_connections(rms, u)
        sessions == IF u \in DOMAIN swept THEN swept[u] ELSE EmptyMap
        addresses == { sid \in DOMAIN sessions :
                         sid # exclude_session /\ Upgrade(sessions[sid]) }
    IN [rooms |-> swept,
        pushed |-> IF \E sid \in DOMAIN before : ~Upgrade(before[sid])
                   THEN EmptyBag
                   ELSE Pushes(sessions, addresses, message)]

\* broadcast_to_room_excluding without its filter on exclude_session.
broadcast_to_room_including(rms, u, message, exclude_session) ==
    LET swept == cleanup_dead_connections(rms, u)
        sessions == IF u \in DOMAIN swept THEN swept[u] ELSE EmptyMap
        addresses == { sid \in DOMAIN sessions : Upgrade(sessions[sid]) }
    IN [rooms |-> swept, pushed |-> Pushes(sessions, addresses, message)]

\* RoomManager::broadcast_to_room_excluding; exclude_session = NoSession is None.
broadcast_to_room_excluding(rms, u, message, exclude_session) ==
    LET swept == cleanup_dead_connections(rms, u)
        sessions == IF u \in DOMAIN swept THEN swept[u] ELSE EmptyMap
        addresses == { sid \in DOMAIN sessions :
                          /\ (exclude_session # NoSession => sid # exclude_session)
                          /\ Upgrade(sessions[sid]) }
    IN [rooms |-> swept, pushed |-> Pushes(sessions, addresses, message)]

\* RoomManager::broadcast_to_room
broadcast_to_room(rms, u, message) ==
    broadcast_to_room_excluding(rms, u, message, NoSession)

\* get_room_user_count that makes the room it is asked about.
get_room_user_count_creates(rms, u) ==
    LET swept == cleanup_dead_connections(rms, u)
    IN [rooms |-> IF u \in DOMAIN swept THEN swept ELSE Put(swept, u, EmptyMap),
        count |-> IF u \in DOMAIN swept THEN Cardinality(DOMAIN swept[u]) ELSE 0]

\* get_room_user_count without cleanup_dead_connections.
get_room_user_count_unswept(rms, u) ==
    [rooms |-> rms,
     count |-> IF u \in DOMAIN rms THEN Cardinality(DOMAIN rms[u]) ELSE 0]

\* RoomManager::get_room_user_count
get_room_user_count(rms, u) ==
    LET swept == cleanup_dead_connections(rms, u)
    IN [rooms |-> swept,
        count |-> IF u \in DOMAIN swept THEN Cardinality(DOMAIN swept[u]) ELSE 0]

\* The loop of cleanup_all_rooms and debug_rooms over the collected keys.
RECURSIVE cleanup_each(_, _)
cleanup_each(rms, user_ids) ==
    IF user_ids = {} THEN rms
    ELSE LET u == CHOOSE x \in user_ids : TRUE
         IN cleanup_each(cleanup_dead_connections(rms, u), user_ids \ {u})

\* cleanup_all_rooms that sweeps nothing.
cleanup_all_rooms_idle(rms) == rms

\* RoomManager::cleanup_all_rooms
cleanup_all_rooms(rms) == cleanup_each(rms, DOMAIN rms)

\* debug_rooms that prints the map as it finds it.
debug_rooms_unswept(rms) ==
    [rooms |-> rms,
     snapshot |-> { << u, Cardinality(DOMAIN rms[u]) >> : u \in DOMAIN rms }]

\* RoomManager::debug_rooms: the map afterwards and the lines printed.
debug_rooms(rms) ==
    LET swept == cleanup_each(rms, DOMAIN rms)
    IN [rooms |-> swept,
        snapshot |-> { << u, Cardinality(DOMAIN swept[u]) >> : u \in DOMAIN swept }]

\* Whether the map rms holds an entry for session_id under user_id u.
Has(rms, u, sid) == u \in DOMAIN rms /\ sid \in DOMAIN rms[u]

\* A step of the RoomManager and what it produced: the message handled, the
\* entries it removed from the map, the ClientMessages it sent, and its reply
\* or printed snapshot.
Step(msg, after, pushed, count, snapshot) ==
    [msg |-> msg,
     removed |-> { e \in RoomKeys \X Sessions :
                     Has(rooms, e[1], e[2]) /\ ~Has(after, e[1], e[2]) },
     pushed |-> pushed, count |-> count, snapshot |-> snapshot]

NoStep ==
    [msg |-> [type |-> "none", user_id |-> NoUser, session_id |-> NoSession,
              addr |-> NoSession, message |-> NoMsg],
     removed |-> {}, pushed |-> EmptyBag, count |-> NoCount, snapshot |-> {}]

CleanupTick ==
    [type |-> "cleanup_all_rooms", user_id |-> NoUser, session_id |-> NoSession,
     addr |-> NoSession, message |-> NoMsg]

BroadcastCall(u, message) ==
    [type |-> "broadcast_to_room", user_id |-> u, session_id |-> NoSession,
     addr |-> NoSession, message |-> message]

\* A notice for RoomManager::broadcast_to_room, which has no caller of its own.
Notice == [kind |-> "notice", from |-> NoSession, text |-> NoText, count |-> NoCount]

sessionVars == << st, user_id, idle, probeDue, heard, leaveSent >>

\* Handler<JoinRoom> for RoomManager
HandleJoinRoom ==
    /\ mailbox # << >>
    /\ Head(mailbox).type = "JoinRoom"
    /\ LET msg == Head(mailbox)
           r == join_room(rooms, msg.user_id, msg.session_id, msg.addr)
       IN /\ rooms' = r.rooms
          /\ joined' = joined \cup { << msg.user_id, msg.session_id >> }
          /\ last' = Step(msg, r.rooms, r.pushed, NoCount, {})
    /\ mailbox' = Tail(mailbox)
    /\ UNCHANGED << sessionVars, left >>

\* Handler<JoinRoom> for a JoinRoom that names a session id the room holds
\* already.  No session sends one; it comes, like GetRoomUserCount, from a
\* holder of the RoomManager's address, with the Addr of a running actor.
HandleJoinRoomAgain(u, sid, addr) ==
    /\ Has(rooms, u, sid)
    /\ st[addr] \in {"active", "stopped"}
    /\ LET msg == JoinRoom(u, sid, addr)
           r == join_room(rooms, msg.user_id, msg.session_id, msg.addr)
       IN /\ rooms' = r.rooms
          /\ joined' = joined \cup { << msg.user_id, msg.session_id >> }
          /\ last' = Step(msg, r.rooms, r.pushed, NoCount, {})
    /\ UNCHANGED << sessionVars, mailbox, left >>

\* Handler<LeaveRoom> for RoomManager
HandleLeaveRoom ==
    /\ mailbox # << >>
    /\ Head(mailbox).type = "LeaveRoom"
    /\ LET msg == Head(mailbox)
           r == leave_room(rooms, msg.user_id, msg.session_id)
       IN /\ rooms' = r.rooms
          /\ left' = left \cup { << msg.user_id, msg.session_id >> }
          /\ last' = Step(msg, r.rooms, r.pushed, NoCount, {})
    /\ mailbox' = Tail(mailbox)
    /\ UNCHANGED << sessionVars, joined >>

\* Handler<SendToRoom> for RoomManager
HandleSendToRoom ==
    /\ mailbox # << >>
    /\ Head(mailbox).type = "SendToRoom"
    /\ LET msg == Head(mailbox)
           r == broadcast_to_room_excluding(rooms, msg.user_id, msg.message, msg.session_id)
       IN /\ rooms' = r.rooms
          /\ last' = Step(msg, r.rooms, r.pushed, NoCount, {})
    /\ mailbox' = Tail(mailbox)
    /\ UNCHANGED << sessionVars, joined, left >>

\* Handler<GetRoomUserCount> for RoomManager.  The request comes from a holder
\* of AppState.room_manager, not from a session; sending it has no effect but
\* the queuing, so it is handled in the step that takes it.
HandleGetRoomUserCount(u) ==
    /\ LET msg == GetRoomUserCount(u)
           r == get_room_user_count(rooms, msg.user_id)
       IN /\ rooms' = r.rooms
          /\ last' = Step(msg, r.rooms, EmptyBag, r.count, {})
    /\ UNCHANGED << sessionVars, mailbox, joined, left >>

\* Handler<DebugRooms> for RoomManager, requested like GetRoomUserCount.
HandleDebugRooms ==
    /\ LET r == debug_rooms(rooms)
       IN /\ rooms' = r.rooms
          /\ last' = Step(DebugRooms, r.rooms, EmptyBag, NoCount, r.snapshot)
    /\ UNCHANGED << sessionVars, mailbox, joined, left >>

\* Actor for RoomManager, started: the 30 s run_interval callback.
PeriodicCleanup ==
    /\ rooms' = cleanup_all_rooms(rooms)
    /\ last' = Step(CleanupTick, cleanup_all_rooms(rooms), EmptyBag, NoCount, {})
    /\ UNCHANGED << sessionVars, mailbox, joined, left >>

\* A call of RoomManager::broadcast_to_room on the actor's state.
CallBroadcastToRoom(u) ==
    /\ LET r == broadcast_to_room(rooms, u, Notice)
       IN /\ rooms' = r.rooms
          /\ last' = Step(BroadcastCall(u, Notice), r.rooms, r.pushed, NoCount, {})
    /\ UNCHANGED << sessionVars, mailbox, joined, left >>

\* ----------------------------------------------------------------- MyWs
registryVars == << rooms, joined, left >>

\* A step of a session that the RoomManager takes no part in.
Seen(s, kind) ==
    [msg |-> [type |-> kind, user_id |-> NoUser, session_id |-> s,
              addr |-> NoSession, message |-> NoMsg],
     removed |-> {}, pushed |-> EmptyBag, count |-> NoCount, snapshot |-> {}]

\* is_alive that gives up one probe early.
is_alive_early(s) == idle[s] < ClientTimeout - HeartbeatInterval

\* is_alive that never reports a timeout.
is_alive_always(s) == TRUE

\* Heartbeat::is_alive
is_alive(s) == idle[s] < ClientTimeout

\* Heartbeat::heartbeat
heartbeat(s) == idle' = [idle EXCEPT ![s] = 0]

\* stopping whose LeaveRoom overtakes what waits in the mailbox.
stopping_leave_first(s) ==
    /\ mailbox' = << LeaveRoom(user_id[s], s) >> \o mailbox
    /\ leaveSent' = [leaveSent EXCEPT ![s] = @ + 1]
    /\ st' = [st EXCEPT ![s] = "stopped"]
    /\ idle' = [idle EXCEPT ![s] = 0]
    /\ heard' = [heard EXCEPT ![s] = FALSE]
    /\ probeDue' = [probeDue EXCEPT ![s] = FALSE]

\* stopping that takes every running session down with it.
stopping_everyone(s) ==
    /\ mailbox' = Append(mailbox, LeaveRoom(user_id[s], s))
    /\ leaveSent' = [leaveSent EXCEPT ![s] = @ + 1]
    /\ st' = [t \in Sessions |-> IF st[t] = "active" THEN "stopped" ELSE st[t]]
    /\ idle' = [idle EXCEPT ![s] = 0]
    /\ heard' = [heard EXCEPT ![s] = FALSE]
    /\ probeDue' = [probeDue EXCEPT ![s] = FALSE]

\* stopping that forgets self.leave_room().
stopping_without_leave(s) ==
    /\ st' = [st EXCEPT ![s] = "stopped"]
    /\ idle' = [idle EXCEPT ![s] = 0]
    /\ heard' = [heard EXCEPT ![s] = FALSE]
    /\ probeDue' = [probeDue EXCEPT ![s] = FALSE]
    /\ UNCHANGED << mailbox, leaveSent >>

\* MyWs::stopping (with MyWs::leave_room); Running::Stop ends the actor and
\* with it the interval timer.
stopping(s) ==
    /\ mailbox' = Append(mailbox, LeaveRoom(user_id[s], s))
    /\ leaveSent' = [leaveSent EXCEPT ![s] = @ + 1]
    /\ st' = [st EXCEPT ![s] = "stopped"]
    /\ idle' = [idle EXCEPT ![s] = 0]
    /\ heard' = [heard EXCEPT ![s] = FALSE]
    /\ probeDue' = [probeDue EXCEPT ![s] = FALSE]

\* A connection that takes the session id of a session that is gone.
Connect_reuses_id(s, u) ==
    /\ st[s] \in {"new", "released"}
    /\ Len(mailbox) < MaxQueue
    /\ \A t \in Sessions : t < s => st[t] # "new"
    /\ s = 1 => u = "u1"
    /\ st' = [st EXCEPT ![s] = "active"]
    /\ user_id' = [user_id EXCEPT ![s] = u]
    /\ mailbox' = Append(mailbox, JoinRoom(u, s, s))
    /\ UNCHANGED << idle, heard, probeDue, leaveSent, registryVars >>
    /\ last' = NoStep

\* ws::start(MyWs::new(user_id, room_manager), ..) and MyWs::started (with
\* MyWs::join_room): the session id is fresh, the actor's address is its own.
\* Session ids are numbered in the order the sessions connect, and the room
\* of the first session is called "u1": sessions and rooms are interchangeable.
Connect(s, u) ==
    /\ st[s] = "new"
    /\ Len(mailbox) < MaxQueue
    /\ \A t \in Sessions : t < s => st[t] # "new"
    /\ s = 1 => u = "u1"
    /\ st' = [st EXCEPT ![s] = "active"]
    /\ user_id' = [user_id EXCEPT ![s] = u]
    /\ mailbox' = Append(mailbox, JoinRoom(u, s, s))
    /\ UNCHANGED << idle, heard, probeDue, leaveSent, registryVars >>
    /\ last' = NoStep

\* StreamHandler::handle, Ok(ws::Message::Ping(_))
RecvPing(s) ==
    /\ st[s] = "active"
    /\ heartbeat(s)
    /\ heard' = [heard EXCEPT ![s] = TRUE]
    /\ UNCHANGED << st, user_id, probeDue, leaveSent, mailbox, registryVars >>
    /\ last' = NoStep

\* StreamHandler::handle, Ok(ws::Message::Pong(_))
RecvPong(s) ==
    /\ st[s] = "active"
    /\ heartbeat(s)
    /\ heard' = [heard EXCEPT ![s] = TRUE]
    /\ UNCHANGED << st, user_id, probeDue, leaveSent, mailbox, registryVars >>
    /\ last' = NoStep

\* An echo that repeats the room's form of the message.
text_echo_relayed(s, message) == Push(s, RoomMsg(s, message))

\* ctx.text(my_msg): what the session writes to its own peer for a text frame.
text_echo(s, message) == Push(s, EchoMsg(message))

\* A text frame handled by session s: the room message it passed on and the
\* frames it wrote to its own peer.
TextStep(s, message) ==
    [msg |-> [type |-> "Text", user_id |-> user_id[s], session_id |-> s,
              addr |-> NoSession, message |-> RoomMsg(s, message)],
     removed |-> {}, pushed |-> text_echo(s, message), count |-> NoCount,
     snapshot |-> {}]

\* StreamHandler::handle, Ok(ws::Message::Text(text)) (with MyWs::send_to_room)
RecvText(s, text) ==
    /\ st[s] = "active"
    /\ Len(mailbox) < MaxQueue
    /\ heartbeat(s)
    /\ heard' = [heard EXCEPT ![s] = TRUE]
    /\ mailbox' = Append(mailbox, SendToRoom(user_id[s], RoomMsg(s, Trim(text)), s))
    /\ UNCHANGED << st, user_id, probeDue, leaveSent, registryVars >>
    /\ last' = TextStep(s, Trim(text))

\* StreamHandler::handle, Ok(ws::Message::Binary(bin))
RecvBinary(s) ==
    /\ st[s] = "active"
    /\ heartbeat(s)
    /\ UNCHANGED << st, user_id, probeDue, heard, leaveSent, mailbox, registryVars >>
    /\ last' = NoStep

\* StreamHandler::handle, Ok(ws::Message::Close(reason)): ctx.close(reason)
RecvClose(s) ==
    /\ st[s] = "active"
    /\ last' = Seen(s, "close")
    /\ UNCHANGED << st, user_id, idle, probeDue, heard, leaveSent, mailbox, registryVars >>

\* StreamHandler::handle, the arm _ => (): Err(ws::ProtocolError)
RecvProtocolError(s) ==
    /\ st[s] = "active"
    /\ last' = Seen(s, "error")
    /\ UNCHANGED << st, user_id, idle, probeDue, heard, leaveSent, mailbox, registryVars >>

\* StreamHandler::handle, the arm _ => (): Ok(Continuation(_)), Ok(Nop)
RecvOther(s) ==
    /\ st[s] = "active"
    /\ last' = NoStep
    /\ UNCHANGED << sessionVars, mailbox, registryVars >>

\* The inbound stream ends: StreamHandler::finished is not overridden, its
\* default stops the context, which runs MyWs::stopping.
StreamFinished(s) ==
    /\ st[s] = "active"
    /\ Len(mailbox) < MaxQueue
    /\ stopping(s)
    /\ UNCHANGED << user_id, registryVars >>
    /\ last' = NoStep

\* MyWs::started, the run_interval(5 s) callback
HeartbeatProbe(s) ==
    /\ st[s] = "active"
    /\ probeDue[s]
    /\ IF ~is_alive(s)
       THEN /\ stopping(s)
            /\ last' = Seen(s, "timeout")
       ELSE /\ probeDue' = [probeDue EXCEPT ![s] = FALSE]
            /\ last' = NoStep
            /\ UNCHANGED << st, idle, heard, leaveSent, mailbox >>
    /\ UNCHANGED << user_id, registryVars >>

\* A session that takes its own entry out of the map when it goes.
Release_removes_entry(s) ==
    /\ st[s] = "stopped"
    /\ st' = [st EXCEPT ![s] = "released"]
    /\ rooms' = leave_room(rooms, user_id[s], s).rooms
    /\ UNCHANGED << user_id, idle, probeDue, heard, leaveSent, mailbox, joined, left >>
    /\ last' = NoStep

\* The stopped actor's context is dropped: its WeakAddr no longer upgrades.
Release(s) ==
    /\ st[s] = "stopped"
    /\ st' = [st EXCEPT ![s] = "released"]
    /\ UNCHANGED << user_id, idle, probeDue, heard, leaveSent, mailbox, registryVars >>
    /\ last' = NoStep

\* HeartbeatInterval seconds pass; every running interval timer expires.
Tick ==
    /\ \E s \in Sessions : st[s] = "active"
    /\ \A s \in Sessions : st[s] = "active" => ~probeDue[s]
    /\ idle' = [s \in Sessions |->
                  IF st[s] = "active" THEN Min(idle[s] + HeartbeatInterval, ClientTimeout)
                  ELSE idle[s]]
    /\ probeDue' = [s \in Sessions |-> st[s] = "active"]
    /\ UNCHANGED << st, user_id, heard, leaveSent, mailbox, registryVars >>
    /\ last' = NoStep

\* ------------------------------------------------------- specifications
Init ==
    /\ rooms = EmptyMap
    /\ mailbox = << >>
    /\ st = [s \in Sessions |-> "new"]
    /\ user_id = [s \in Sessions |-> NoUser]
    /\ idle = [s \in Sessions |-> 0]
    /\ heard = [s \in Sessions |-> FALSE]
    /\ probeDue = [s \in Sessions |-> FALSE]
    /\ leaveSent = [s \in Sessions |-> 0]
    /\ joined = {}
    /\ left = {}
    /\ last = NoStep

Connecting == 1 .. NumConnecting

\* The registry and the sessions' traffic to it, with time left out.
Next ==
    \/ \E s \in Connecting, u \in RoomKeys : Connect(s, u)
    \/ \E s \in Connecting, text \in Texts : RecvText(s, text)
    \/ \E s \in Connecting : StreamFinished(s)
    \/ \E s \in Connecting : Release(s)
    \/ HandleJoinRoom
    \/ HandleLeaveRoom
    \/ HandleSendToRoom
    \/ \E u \in RoomKeys : HandleGetRoomUserCount(u)
    \/ HandleDebugRooms
    \/ \E u \in RoomKeys : CallBroadcastToRoom(u)
    \/ PeriodicCleanup

Spec == Init /\ [][Next]_vars

TimedSessions == 1 .. NumTimed

\* The sessions with their frames, heartbeat and timers, and the RoomManager
\* handling what they send.
SessionNext ==
    \/ \E s \in TimedSessions, u \in RoomKeys : Connect(s, u)
    \/ \E s \in TimedSessions : RecvPing(s)
    \/ \E s \in TimedSessions : RecvPong(s)
    \/ \E s \in TimedSessions, text \in Texts : RecvText(s, text)
    \/ \E s \in TimedSessions : RecvBinary(s)
    \/ \E s \in TimedSessions : RecvClose(s)
    \/ \E s \in TimedSessions : RecvProtocolError(s)
    \/ \E s \in TimedSessions : RecvOther(s)
    \/ \E s \in TimedSessions : StreamFinished(s)
    \/ \E s \in TimedSessions : HeartbeatProbe(s)
    \/ \E s \in TimedSessions : Release(s)
    \/ Tick
    \/ HandleJoinRoom
    \/ HandleLeaveRoom
    \/ HandleSendToRoom

\* Timers fire: time passes and an expired interval timer runs its callback.
SessionSpec ==
    /\ Init
    /\ [][SessionNext]_vars
    /\ WF_vars(Tick)
    /\ \A s \in TimedSessions : WF_vars(HeartbeatProbe(s))

\* Sessions come and go and nothing but the periodic sweep is sure to happen:
\* a LeaveRoom may wait in the mailbox for ever.  The handlers that sweep a
\* room on their way (SendToRoom, GetRoomUserCount) are left out.
SweepNext ==
    \/ \E s \in Connecting, u \in RoomKeys : Connect(s, u)
    \/ \E s \in Connecting : StreamFinished(s)
    \/ \E s \in Connecting : Release(s)
    \/ HandleJoinRoom
    \/ HandleLeaveRoom
    \/ PeriodicCleanup

SweepSpec == Init /\ [][SweepNext]_vars /\ WF_vars(PeriodicCleanup)

\* Every session has its heartbeat timer; peers send frames that restart the
\* heartbeat (binary ones here) or fall silent, streams end, and the RoomManager handles the JoinRoom and LeaveRoom sent.
IsolationNext ==
    \/ \E s \in Connecting, u \in RoomKeys : Connect(s, u)
    \/ \E s \in Connecting : RecvBinary(s)
    \/ \E s \in Connecting : StreamFinished(s)
    \/ \E s \in Connecting : HeartbeatProbe(s)
    \/ \E s \in Connecting : Release(s)
    \/ Tick
    \/ HandleJoinRoom
    \/ HandleLeaveRoom

IsolationSpec == Init /\ [][IsolationNext]_vars

\* Sessions come and go, and JoinRoom is sent again for ids in the map.
RejoinNext ==
    \/ \E s \in Connecting, u \in RoomKeys : Connect(s, u)
    \/ \E s \in Connecting : StreamFinished(s)
    \/ \E s \in Connecting : Release(s)
    \/ HandleJoinRoom
    \/ HandleLeaveRoom
    \/ \E u \in RoomKeys, sid \in Connecting, addr \in Connecting :
          HandleJoinRoomAgain(u, sid, addr)

RejoinSpec == Init /\ [][RejoinNext]_vars

\* Every session id connects; streams end and the RoomManager handles the
\* JoinRoom and LeaveRoom sent.
CrowdNext ==
    \/ \E s \in Sessions, u \in RoomKeys : Connect(s, u)
    \/ \E s \in Sessions : StreamFinished(s)
    \/ \E s \in Sessions : Release(s)
    \/ HandleJoinRoom
    \/ HandleLeaveRoom

CrowdSpec == Init /\ [][CrowdNext]_vars

\* --------------------------------------------------------------- claims
\* The sessions whose JoinRoom / LeaveRoom for room u has been handled.
JoinedIn(u) == { s \in Sessions : << u, s >> \in joined }

LeftFrom(u) == { s \in Sessions : << u, s >> \in left }

\* The members room u had when the latest RoomManager step began.
MembersBefore(u) ==
    { s \in Sessions : Has(rooms, u, s) \/ << u, s >> \in last.removed }

\* C1: a GetRoomUserCount handled after any sequence of JoinRoom and LeaveRoom
\* for a room replies the number of distinct session ids joined, minus those
\* left, minus the joined-and-not-left sessions whose handle is dead, and
\* never less than 0.
C1_CountIsJoinedMinusLeft ==
    last.msg.type = "GetRoomUserCount" =>
        LET u == last.msg.user_id
            dead == { s \in JoinedIn(u) \ LeftFrom(u) : ~Upgrade(s) }
        IN last.count =
             Max(Cardinality(JoinedIn(u)) - Cardinality(LeftFrom(u)) - Cardinality(dead), 0)

\* C1 witness: two sessions joined a room, one left, and the count replied 1.
C1_Witness ==
    /\ last.msg.type = "GetRoomUserCount"
    /\ Cardinality(JoinedIn(last.msg.user_id)) >= 2
    /\ LeftFrom(last.msg.user_id) # {}
    /\ last.count = 1

\* C2: handling LeaveRoom(u, sid) a second time changes nothing that can be
\* observed: the map stays as the first left it and no ClientMessage is sent.
C2_LeaveIdempotent ==
    \A u \in RoomKeys, sid \in Sessions :
        LET once == leave_room(rooms, u, sid)
            twice == leave_room(once.rooms, u, sid)
        IN /\ twice.rooms = once.rooms
           /\ twice.pushed = EmptyBag

\* C3: a SendToRoom never sends its message to the session that sent it, and
\* no session is ever sent the room-format copy of its own text.
C3_SenderExcluded ==
    /\ last.msg.type = "SendToRoom" =>
          \A p \in DOMAIN last.pushed : p[1] # last.msg.session_id
    /\ \A p \in DOMAIN last.pushed : p[2].kind = "room" => p[2].from # p[1]

\* C3 witness: a SendToRoom was relayed to somebody while its sender was a
\* live member of the room.
C3_Witness ==
    /\ last.msg.type = "SendToRoom"
    /\ last.pushed # EmptyBag
    /\ Has(rooms, last.msg.user_id, last.msg.session_id)
    /\ Upgrade(last.msg.session_id)

\* C4: a broadcast sends its message exactly once to every member of the room
\* that is live and not the excluded session, whatever dead handles the room
\* holds; broadcast_to_room excludes nobody.
C4_LiveMembersReceiveOnce ==
    last.msg.type \in {"SendToRoom", "broadcast_to_room"} =>
        \A s \in MembersBefore(last.msg.user_id) :
            (Upgrade(s) /\ s # last.msg.session_id) =>
                CopiesIn(<< s, last.msg.message >>, last.pushed) = 1

\* C4 witness: a broadcast swept a dead handle and still reached a member.
C4_Witness ==
    /\ last.msg.type \in {"SendToRoom", "broadcast_to_room"}
    /\ last.removed # {}
    /\ last.pushed # EmptyBag

\* C5: a session that has stayed at least ClientTimeout without a ping, pong,
\* text or binary frame stops itself and sends exactly one LeaveRoom, unless a
\* frame that restarts the heartbeat arrives before the next probe.
C5_IdleSessionStops ==
    \A s \in TimedSessions :
        (st[s] = "active" /\ idle[s] >= ClientTimeout)
            ~> \/ st[s] # "active" /\ leaveSent[s] = 1
               \/ st[s] = "active" /\ idle[s] < ClientTimeout

\* C5 witness: the probe found the heartbeat expired, the session stopped and
\* its one LeaveRoom is sent.
C5_Witness ==
    \E s \in TimedSessions :
        /\ last = Seen(s, "timeout")
        /\ st[s] = "stopped"
        /\ leaveSent[s] = 1

\* C5 as stated: a session that never receives a ping, pong or text frame
\* eventually stops itself.
C5_StopsWithoutPingPongText ==
    \A s \in TimedSessions :
        (st[s] = "active" /\ ~heard[s]) ~> (st[s] # "active" \/ heard[s])

\* C6: a session has sent no LeaveRoom while it runs and exactly one once it
\* has stopped, whatever made it stop.
C6_ExactlyOneLeave ==
    \A s \in Sessions :
        leaveSent[s] = IF st[s] \in {"stopped", "released"} THEN 1 ELSE 0

\* C6 witness: a session is gone, it sent one LeaveRoom and the RoomManager
\* has handled it.
C6_Witness ==
    \E s \in Sessions :
        /\ st[s] = "released"
        /\ leaveSent[s] = 1
        /\ << user_id[s], s >> \in left

\* C7: a frame that fails protocol decoding ends the session: once the
\* handler has seen it the session no longer runs.
C7_ProtocolErrorStops ==
    \A s \in Sessions : last = Seen(s, "error") => st[s] # "active"

\* C8: a close frame ends the session as a consequence of the frame itself:
\* once the handler has seen it the session no longer runs.
C8_CloseStops ==
    \A s \in Sessions : last = Seen(s, "close") => st[s] # "active"

\* A room that holds nothing but dead handles.
AllDead(u) ==
    /\ u \in DOMAIN rooms
    /\ \A sid \in DOMAIN rooms[u] : ~Upgrade(rooms[u][sid])

\* C9: when only the periodic sweep is sure to run (a LeaveRoom may never be
\* handled), every dead entry is eventually removed, and a room of dead
\* entries only is eventually deleted unless a live session joined it.
C9_SweepReclaims ==
    /\ \A u \in RoomKeys, s \in Sessions :
          (Has(rooms, u, s) /\ ~Upgrade(rooms[u][s])) ~> ~Has(rooms, u, s)
    /\ \A u \in RoomKeys : AllDead(u) ~> ~AllDead(u)

\* C9 witness: the sweep removed the entry of a session whose LeaveRoom was
\* never handled, and deleted its room.
C9_Witness ==
    /\ last.msg.type = "cleanup_all_rooms"
    /\ \E e \in last.removed : e \notin left /\ e[1] \notin DOMAIN rooms

\* C10: after a GetRoomUserCount no session whose handle is dead is a member
\* of the room, and the count replied is the number of members that remain.
C10_CountExcludesDead ==
    last.msg.type = "GetRoomUserCount" =>
        LET u == last.msg.user_id
        IN /\ \A s \in Sessions : ~Upgrade(s) => ~Has(rooms, u, s)
           /\ last.count = Cardinality({ s \in MembersBefore(u) : Upgrade(s) })

\* C10 witness: the count swept a dead session and still counted a live one.
C10_Witness ==
    /\ last.msg.type = "GetRoomUserCount"
    /\ last.removed # {}
    /\ last.count >= 1

\* The members of room u whose handle upgrades.
LiveMembers(u) ==
    { s \in Sessions : Has(rooms, u, s) /\ Upgrade(rooms[u][s]) }

\* C11: a DebugRooms prints no room without a live member: each room printed
\* is in the map with the count printed, which is its number of live members
\* and at least 1, and a room that had no live member is not printed.
C11_SnapshotHasNoDeadRoom ==
    last.msg.type = "DebugRooms" =>
        /\ \A e \in last.snapshot :
              /\ e[1] \in DOMAIN rooms
              /\ e[2] = Cardinality(LiveMembers(e[1]))
              /\ e[2] >= 1
        /\ \A u \in RoomKeys :
              (\A s \in MembersBefore(u) : ~Upgrade(s)) =>
                  (\A e \in last.snapshot : e[1] # u)

\* C11 witness: a DebugRooms swept a room of dead members away and printed
\* another room.
C11_Witness ==
    /\ last.msg.type = "DebugRooms"
    /\ \E e \in last.removed : e[1] \notin DOMAIN rooms
    /\ last.snapshot # {}

\* C12: a text frame makes the session write the echo form once to its own
\* peer and nothing else, and pass the room form on with itself excluded;
\* the SendToRoom then sends the room form once to every other live member
\* of the room and never to the sender.
C12_EchoAndRelay ==
    /\ last.msg.type = "Text" =>
          LET s == last.msg.session_id
              m == mailbox[Len(mailbox)]
          IN /\ BagToSet(last.pushed) = { << s, EchoMsg(last.msg.message.text) >> }
             /\ BagCardinality(last.pushed) = 1
             /\ m = SendToRoom(user_id[s], RoomMsg(s, last.msg.message.text), s)
    /\ last.msg.type = "SendToRoom" =>
          LET sender == last.msg.session_id
          IN /\ last.msg.message.kind = "room"
             /\ last.msg.message.from = sender
             /\ \A t \in Sessions :
                   CopiesIn(<< t, last.msg.message >>, last.pushed) =
                       IF /\ t \in MembersBefore(last.msg.user_id)
                          /\ Upgrade(t)
                          /\ t # sender
                       THEN 1 ELSE 0

\* C12 witness: the text of a live member was sent on to another member.
C12_Witness ==
    /\ last.msg.type = "SendToRoom"
    /\ Has(rooms, last.msg.user_id, last.msg.session_id)
    /\ \E t \in Sessions :
          /\ t # last.msg.session_id
          /\ CopiesIn(<< t, last.msg.message >>, last.pushed) = 1

\* C13: a JoinRoom makes the session a member, sends the joiner one welcome
\* with the new count N, sends every other live member of the room one
\* "new user joined" with N, and sends nothing else to anybody.
C13_JoinNotifies ==
    last.msg.type = "JoinRoom" =>
        LET u == last.msg.user_id
            sid == last.msg.session_id
            N == Cardinality(DOMAIN rooms[u])
            others == LiveMembers(u) \ {sid}
        IN /\ Has(rooms, u, sid)
           /\ BagToSet(last.pushed) =
                 { << last.msg.addr, WelcomeMsg(N) >> }
                     \cup { << rooms[u][o], JoinMsg(N) >> : o \in others }
           /\ \A p \in BagToSet(last.pushed) : CopiesIn(p, last.pushed) = 1

\* C13 witness: a second session joined a room and the first was told.
C13_Witness ==
    /\ last.msg.type = "JoinRoom"
    /\ \E p \in BagToSet(last.pushed) : p[2] = JoinMsg(2)

\* C14: a LeaveRoom for a member removes that entry and no other; if the room
\* is then empty it is deleted and nothing is sent, otherwise every remaining
\* live member is sent "user left" once, with the number of entries that
\* remain, and nothing else is sent.
C14_LeaveRemovesAndNotifies ==
    (last.msg.type = "LeaveRoom"
        /\ << last.msg.user_id, last.msg.session_id >> \in last.removed) =>
        LET u == last.msg.user_id
        IN /\ last.removed = { << u, last.msg.session_id >> }
           /\ IF u \notin DOMAIN rooms
              THEN last.pushed = EmptyBag
              ELSE /\ DOMAIN rooms[u] # {}
                   /\ BagToSet(last.pushed) =
                         { << rooms[u][s], LeaveMsg(Cardinality(DOMAIN rooms[u])) >> :
                              s \in LiveMembers(u) }
                   /\ \A p \in BagToSet(last.pushed) : CopiesIn(p, last.pushed) = 1

\* C14 witness: of two members one left and the other was told 1 remains.
C14_Witness ==
    /\ last.msg.type = "LeaveRoom"
    /\ << last.msg.user_id, last.msg.session_id >> \in last.removed
    /\ \E p \in BagToSet(last.pushed) : p[2] = LeaveMsg(1)

\* C15: a GetRoomUserCount replies the number of members of the room whose
\* handle upgrades when it is handled; for a room that is not in the map it
\* replies 0 and the room is not in the map afterwards.
C15_CountIsLiveMembers ==
    last.msg.type = "GetRoomUserCount" =>
        LET u == last.msg.user_id
        IN /\ last.count = Cardinality(LiveMembers(u))
           /\ LiveMembers(u) = { s \in MembersBefore(u) : Upgrade(s) }
           /\ MembersBefore(u) = {} => (last.count = 0 /\ u \notin DOMAIN rooms)

\* C15 witness: the count of a room that is not in the map, next to a room
\* that is, replied 0.
C15_Witness ==
    /\ last.msg.type = "GetRoomUserCount"
    /\ MembersBefore(last.msg.user_id) = {}
    /\ last.count = 0
    /\ DOMAIN rooms # {}

\* C16: no room of the map is empty.
C16_NoEmptyRoom ==
    \A u \in DOMAIN rooms : DOMAIN rooms[u] # {}

\* C16 witness: a step of the RoomManager removed the last member of a room
\* and the room with it.
C16_Witness ==
    /\ \E e \in last.removed : e[1] \notin DOMAIN rooms
    /\ last.msg.type \in {"JoinRoom", "LeaveRoom", "SendToRoom",
                          "GetRoomUserCount", "cleanup_all_rooms"}

TimeoutStepOf(s) ==
    /\ st[s] = "active"
    /\ st'[s] = "stopped"
    /\ \A t \in Sessions \ {s} :
          /\ st'[t] = st[t]
          /\ idle'[t] = idle[t]
          /\ probeDue'[t] = probeDue[t]
    /\ rooms' = rooms
    /\ mailbox' = Append(mailbox, LeaveRoom(user_id[s], s))

\* C18: the step in which a session's heartbeat times out stops that session
\* and no other, removes nothing from the map and only queues the session's
\* LeaveRoom; a LeaveRoom removes no entry but that of its own session; and
\* after a timeout the RoomManager can take the message at the head of its
\* mailbox.
C18_TimeoutIsLocal ==
    /\ [][\A s \in Sessions : last' = Seen(s, "timeout") => TimeoutStepOf(s)]_vars
    /\ [](last.msg.type = "LeaveRoom" =>
             last.removed \subseteq { << last.msg.user_id, last.msg.session_id >> })
    /\ []((\E s \in Sessions : last = Seen(s, "timeout")) =>
             ENABLED (HandleJoinRoom \/ HandleLeaveRoom))

\* C18 witness: a session timed out while another session of the same room
\* was running and a member.
C18_Witness ==
    \E s \in Sessions, t \in Sessions :
        /\ last = Seen(s, "timeout")
        /\ t # s
        /\ st[t] = "active"
        /\ user_id[t] = user_id[s]
        /\ Has(rooms, user_id[t], t)

\* The rooms the latest step of the RoomManager was about.
RoomsTouched ==
    IF last.msg.type = "DebugRooms" THEN RoomKeys ELSE { last.msg.user_id }

\* C19: right after a JoinRoom, LeaveRoom, SendToRoom, broadcast_to_room,
\* GetRoomUserCount or DebugRooms has been handled for a room, the room holds
\* no entry whose session was dead when the handler began (the joiner of a
\* JoinRoom was not: the message carried its address).
C19_SweepBeforeEveryOperation ==
    last.msg.type \in {"JoinRoom", "LeaveRoom", "SendToRoom", "broadcast_to_room",
                       "GetRoomUserCount", "DebugRooms"} =>
        \A u \in RoomsTouched \cap DOMAIN rooms : \A s \in DOMAIN rooms[u] :
            \/ Upgrade(rooms[u][s])
            \/ last.msg.type = "JoinRoom" /\ s = last.msg.session_id

\* C20: a LeaveRoom of a session that had joined the room and whose entry a
\* sweep has already removed changes nothing in the map and sends nothing.
C20_LateLeaveIsNoOp ==
    (/\ last.msg.type = "LeaveRoom"
     /\ << last.msg.user_id, last.msg.session_id >> \in joined
     /\ << last.msg.user_id, last.msg.session_id >> \notin last.removed) =>
        /\ last.removed = {}
        /\ last.pushed = EmptyBag

\* What a JoinRoom for a session id that room u holds already does to the
\* room: the dead entries are swept, the id's handle is the new one, every
\* other entry is as it was, and the address gets its welcome.
JoinAgainStep ==
    LET u == last'.msg.user_id
        sid == last'.msg.session_id
        live == { t \in DOMAIN rooms[u] : Upgrade(rooms[u][t]) }
    IN /\ u \in DOMAIN rooms'
       /\ DOMAIN rooms'[u] = live \cup {sid}
       /\ rooms'[u][sid] = last'.msg.addr
       /\ \A t \in live \ {sid} : rooms'[u][t] = rooms[u][t]
       /\ live = DOMAIN rooms[u] =>
             Cardinality(DOMAIN rooms'[u]) = Cardinality(DOMAIN rooms[u])
       /\ CopiesIn(<< last'.msg.addr, WelcomeMsg(Cardinality(DOMAIN rooms'[u])) >>,
                   last'.pushed) = 1

Queued(s, type) ==
    { i \in DOMAIN mailbox : mailbox[i].type = type /\ mailbox[i].session_id = s }

\* C22: the RoomManager handles what one session sent in the order it was
\* sent.  In the mailbox a session's JoinRoom is before its SendToRooms and
\* these before its LeaveRoom; a SendToRoom is handled after the sender's
\* JoinRoom and before its LeaveRoom; a LeaveRoom is handled after the
\* session's JoinRoom and when none of its SendToRooms waits; nothing of a
\* session waits once its LeaveRoom has been handled.
C22_PerSessionOrder ==
    /\ \A s \in Sessions :
          /\ \A i \in Queued(s, "JoinRoom") :
                \A j \in Queued(s, "SendToRoom") \cup Queued(s, "LeaveRoom") : i < j
          /\ \A i \in Queued(s, "SendToRoom") : \A j \in Queued(s, "LeaveRoom") : i < j
          /\ << user_id[s], s >> \in left =>
                Queued(s, "JoinRoom") \cup Queued(s, "SendToRoom") = {}
          /\ << user_id[s], s >> \in joined => Queued(s, "JoinRoom") = {}
    /\ last.msg.type = "SendToRoom" =>
          /\ << last.msg.user_id, last.msg.session_id >> \in joined
          /\ << last.msg.user_id, last.msg.session_id >> \notin left
    /\ last.msg.type = "LeaveRoom" =>
          /\ << last.msg.user_id, last.msg.session_id >> \in joined
          /\ Queued(last.msg.session_id, "SendToRoom") = {}
    /\ last.msg.type = "JoinRoom" =>
          << last.msg.user_id, last.msg.session_id >> \notin left

\* C22 witness: the SendToRoom of a joined session was handled while the
\* session's LeaveRoom waited behind it.
C22_Witness ==
    /\ last.msg.type = "SendToRoom"
    /\ << last.msg.user_id, last.msg.session_id >> \in joined
    /\ Queued(last.msg.session_id, "LeaveRoom") # {}

\* The kinds of step the RoomManager takes.
RegistrySteps ==
    {"JoinRoom", "LeaveRoom", "SendToRoom", "GetRoomUserCount", "DebugRooms",
     "broadcast_to_room", "cleanup_all_rooms"}

\* C23: the map changes in steps of the RoomManager only, each of which
\* handles at most one queued message; a step of a session leaves the map
\* and its history alone; and a SendToRoom is sent to exactly the live
\* members the room had when it was handled, the sender left out.
C23_MapChangesInRegistrySteps ==
    /\ [][/\ rooms' # rooms => last'.msg.type \in RegistrySteps
          /\ last'.msg.type \notin RegistrySteps =>
                (rooms' = rooms /\ joined' = joined /\ left' = left)
          /\ last'.msg.type \in RegistrySteps =>
                (mailbox' = mailbox \/ mailbox' = Tail(mailbox))]_vars
    /\ [](last.msg.type = "SendToRoom" =>
             BagToSet(last.pushed) =
                 { << s, last.msg.message >> :
                      s \in { t \in MembersBefore(last.msg.user_id) :
                                 Upgrade(t) /\ t # last.msg.session_id } })

\* C23 witness: a SendToRoom was handled while the JoinRoom of another
\* session for the same room waited; the sender is a member and nobody was
\* sent the message.
C23_Witness ==
    /\ last.msg.type = "SendToRoom"
    /\ Has(rooms, last.msg.user_id, last.msg.session_id)
    /\ \E i \in DOMAIN mailbox :
          /\ mailbox[i].type = "JoinRoom"
          /\ mailbox[i].user_id = last.msg.user_id
    /\ last.pushed = EmptyBag

\* C24: a ping, pong, text or binary frame sets the time since the last
\* frame to 0, and the probe stops a session only when that time, counted
\* from the latest frame or from the start, is ClientTimeout or more.
C24_NoEarlyTimeout ==
    [][\A s \in Sessions :
          /\ (\/ RecvPing(s)
              \/ RecvPong(s)
              \/ RecvBinary(s)
              \/ \E text \in Texts : RecvText(s, text)) => idle'[s] = 0
          /\ last' = Seen(s, "timeout") => idle[s] >= ClientTimeout]_vars

\* C24 witness: a session is ClientTimeout - HeartbeatInterval without a
\* frame, after frames, and its probe has run and left it running.
C24_Witness ==
    \E s \in Sessions :
        /\ st[s] = "active"
        /\ heard[s]
        /\ idle[s] = ClientTimeout - HeartbeatInterval
        /\ ~probeDue[s]

\* C25: a sweep after a sweep changes nothing: of one room, of all rooms, and
\* of the map a sweep tick has just left.
C25_SweepIdempotent ==
    /\ \A u \in RoomKeys :
          cleanup_dead_connections(cleanup_dead_connections(rooms, u), u)
              = cleanup_dead_connections(rooms, u)
    /\ cleanup_all_rooms(cleanup_all_rooms(rooms)) = cleanup_all_rooms(rooms)
    /\ last.msg.type = "cleanup_all_rooms" => cleanup_all_rooms(rooms) = rooms

\* C25 witness: a sweep tick removed two entries.
C25_Witness ==
    /\ last.msg.type = "cleanup_all_rooms"
    /\ Cardinality(last.removed) >= 2

\* The sessions that were live members of room u while the latest step ran;
\* the joiner of a JoinRoom was live: the message carried its address.
LiveDuring(u) ==
    LiveMembers(u) \cup
        (IF last.msg.type = "JoinRoom" THEN { last.msg.session_id } ELSE {})

\* C26: the count in a welcome, a "new user joined" or a "user left" is the
\* number of live members the room has when it is sent.
C26_AnnouncedCountIsLive ==
    \A p \in BagToSet(last.pushed) :
        p[2].kind \in {"welcome", "joined", "left"} =>
            p[2].count = Cardinality(LiveDuring(last.msg.user_id))

\* C27: whatever a JoinRoom, LeaveRoom, SendToRoom or broadcast_to_room for
\* a room makes the RoomManager send goes to sessions of that room only.
C27_RoomsIsolated ==
    last.msg.type \in {"JoinRoom", "LeaveRoom", "SendToRoom", "broadcast_to_room"} =>
        \A p \in BagToSet(last.pushed) : user_id[p[1]] = last.msg.user_id

\* C27 witness: a message was sent in one room while another room had a live
\* member.
C27_Witness ==
    /\ last.msg.type \in {"JoinRoom", "LeaveRoom", "SendToRoom", "broadcast_to_room"}
    /\ last.pushed # EmptyBag
    /\ \E u \in RoomKeys : u # last.msg.user_id /\ LiveMembers(u) # {}

\* C28: an entry whose session is live leaves the map only in the step that
\* handles the LeaveRoom of that session for that room, and a sweep tick
\* sends nothing.
C28_OnlyOwnLeaveRemovesLive ==
    /\ \A e \in last.removed :
          Upgrade(e[2]) =>
              /\ last.msg.type = "LeaveRoom"
              /\ last.msg.user_id = e[1]
              /\ last.msg.session_id = e[2]
    /\ last.msg.type = "cleanup_all_rooms" => last.pushed = EmptyBag

\* C28 witness: the LeaveRoom of a session whose context still exists
\* removed its entry, and a live member stayed.
C28_Witness ==
    /\ last.msg.type = "LeaveRoom"
    /\ last.removed = { << last.msg.user_id, last.msg.session_id >> }
    /\ Upgrade(last.msg.session_id)
    /\ LiveMembers(last.msg.user_id) # {}

\* C29: a session whose LeaveRoom has been handled is in no room of the map.
C29_NoResurrection ==
    \A e \in left : \A u \in RoomKeys : ~Has(rooms, u, e[2])

\* C29 witness: a JoinRoom was handled for a room that a session has left.
C29_Witness ==
    /\ last.msg.type = "JoinRoom"
    /\ LeftFrom(last.msg.user_id) # {}
    /\ Has(rooms, last.msg.user_id, last.msg.session_id)

====
